---- MODULE Spec2Model ----
(***************************************************************************)
(* Reconciliation of the existing roster with an incoming data pull:       *)
(* scripts/akmerge.py (PersonFile, PersonMerger, merge) and                *)
(* scripts/retire.py (retire).  One behaviour is one run of merge(): the   *)
(* directories are read and the seats expanded, then the three matching    *)
(* loops, then execute_deferred; an exception ends the run where it is     *)
(* raised.                                                                 *)
(*                                                                         *)
(* Strings that the code inspects character by character (districts,      *)
(* names) are sequences of one-character strings; dates are day numbers.   *)
(***************************************************************************)
EXTENDS Integers, Sequences, FiniteSets, TLC

\* ---------------------------------------------------------------- bounds
MaxExisting == 2
MaxIncoming == 2

\* ----------------------------------------------------------------- dates
\* role.get('end_date') is None
NoDate == 0
\* an end date before the day of the run
Past == 1
\* date.today().strftime('%Y-%m-%d')
Today == 2
\* an end date after the day of the run
Future == 3

\* utils.role_is_active: the role has no end date, or one not yet reached
role_is_active(role) == role.end_date = NoDate \/ role.end_date > Today

\* --------------------------------------------------------------- strings
\* the characters the model's strings use, in code-point order
Alphabet == <<"0", "1", "2", "3", "4", "5", "6", "7", "8", "9", "A", "L">>

CharOrd(c) == CHOOSE k \in 1..Len(Alphabet) : Alphabet[k] = c

Digits == {"0", "1", "2", "3", "4", "5", "6", "7", "8", "9"}

\* str.isdigit(): non-empty and every character a digit
isdigit(s) == Len(s) > 0 /\ \A k \in 1..Len(s) : s[k] \in Digits

RECURSIVE int(_)
\* int(s) of a string of digits
int(s) ==
    IF Len(s) = 0 THEN 0
    ELSE 10 * int(SubSeq(s, 1, Len(s) - 1)) + (CharOrd(s[Len(s)]) - 1)

RECURSIVE StrLess(_, _)
\* str < str: lexicographic by code point
StrLess(a, b) ==
    IF Len(b) = 0 THEN FALSE
    ELSE IF Len(a) = 0 THEN TRUE
    ELSE IF a[1] # b[1] THEN CharOrd(a[1]) < CharOrd(b[1])
    ELSE StrLess(Tail(a), Tail(b))

\* the role types, compared as Python compares their strings
TypeOrd(t) ==
    CASE t = "legislature" -> 1
      [] t = "lower" -> 2
      [] t = "upper" -> 3

\* ------------------------------------------------------------ PersonFile
\* a district the YAML file gives unquoted as a number: load_yaml yields an
\* int, written here as the digits behind the mark "int"
YamlInt(digits) == <<"int">> \o digits

\* the district is a str: it has the method isdigit
isstr(district) == Len(district) = 0 \/ district[1] # "int"

\* int(district) if district.isdigit() else district
NormDistrict(district) ==
    IF isdigit(district)
    THEN [isint |-> TRUE, n |-> int(district), s |-> <<>>]
    ELSE [isint |-> FALSE, n |-> 0, s |-> district]

\* the seat of one role: (role['type'], normalised district)
RoleSeat(role) == <<role.type, NormDistrict(role.district)>>

\* PersonFile.seat: the seat of the LAST role
seat(pf) == RoleSeat(pf.data.roles[Len(pf.data.roles)])

\* reading the attribute seat raises AttributeError: district.isdigit() of a
\* district that is no str
SeatRaises(pf) == ~isstr(pf.data.roles[Len(pf.data.roles)].district)

\* tuple < tuple raises TypeError when the first differing elements are an
\* int and a str: same role type, one district numeric and one not
Comparable(a, b) == a[1] # b[1] \/ a[2].isint = b[2].isint

\* seat a < seat b, for comparable seats
SeatLess(a, b) ==
    IF a[1] # b[1] THEN TypeOrd(a[1]) < TypeOrd(b[1])
    ELSE IF a[2].isint THEN a[2].n < b[2].n
    ELSE StrLess(a[2].s, b[2].s)

RECURSIVE LCS(_, _)
\* the length of the longest common subsequence of two strings
LCS(a, b) ==
    IF Len(a) = 0 \/ Len(b) = 0 THEN 0
    ELSE IF a[1] = b[1] THEN 1 + LCS(Tail(a), Tail(b))
    ELSE LET x == LCS(Tail(a), b)
             y == LCS(a, Tail(b))
         IN  IF x >= y THEN x ELSE y

\* the similarity threshold of the fuzzy pass, in percent (0.7)
Threshold == 70

\* the similarity ratio of two names, 2 * matches / total length, exceeds
\* the threshold
Similar(a, b) == 200 * LCS(a, b) > Threshold * (Len(a) + Len(b))

\* ratio(a, b) > ratio(a, c)
MoreSimilar(a, b, c) ==
    LCS(a, b) * (Len(a) + Len(c)) > LCS(a, c) * (Len(a) + Len(b))

\* (mutant of same_name) a similar name in the same seat is the same name
same_name_fuzzy(a, b) ==
    \/ a.data.name = b.data.name
    \/ seat(a) = seat(b) /\ Similar(a.data.name, b.data.name)

\* (mutant of same_name) the seats have to agree as well
same_name_and_seat(a, b) == a.data.name = b.data.name /\ seat(a) = seat(b)

\* PersonFile.same_name
same_name(a, b) == a.data.name = b.data.name

Range(s) == {s[k] : k \in 1..Len(s)}

\* merge.compare_objects(a, b, ignore_keys={'id'}): the raw field-by-field
\* difference; a list-shaped field yields one difference per element that
\* only one side has, tagged with the side; an absent list compares as empty
compare_objects(a, b) ==
    (IF a.name # b.name THEN {[key |-> "name", which |-> "item"]} ELSE {})
    \cup (IF Range(a.roles) \ Range(b.roles) # {}
          THEN {[key |-> "roles", which |-> "first"]} ELSE {})
    \cup (IF Range(b.roles) \ Range(a.roles) # {}
          THEN {[key |-> "roles", which |-> "second"]} ELSE {})
    \cup (IF Range(a.phones.items) \ Range(b.phones.items) # {}
          THEN {[key |-> "phones", which |-> "first"]} ELSE {})
    \cup (IF Range(b.phones.items) \ Range(a.phones.items) # {}
          THEN {[key |-> "phones", which |-> "second"]} ELSE {})

\* PersonFile.differences
differences(a, b) == compare_objects(a.data, b.data)

RECURSIVE AppendNew(_, _)
\* old list, then the elements of the new list the old one lacks
AppendNew(old, new) ==
    IF Len(new) = 0 THEN old
    ELSE AppendNew(IF new[1] \in Range(old) THEN old ELSE Append(old, new[1]),
                   Tail(new))

\* merge.merge_people(old, new, keep_on_conflict='new', keep_both_ids=False):
\* the id stays the existing one, a scalar present on both sides takes the
\* incoming value, what only the existing side has is kept, a list gains the
\* incoming elements it lacks
merge_people(old, new) ==
    [id |-> old.id,
     name |-> new.name,
     roles |-> AppendNew(old.roles, new.roles),
     phones |-> [present |-> old.phones.present \/ new.phones.present,
                 items |-> AppendNew(old.phones.items, new.phones.items)]]

\* -------------------------------------------------------------- the input
Role(t, d, e) == [type |-> t, district |-> d, end_date |-> e]

NoPhones == [present |-> FALSE, items |-> <<>>]

Phones(s) == [present |-> TRUE, items |-> s]

Doc(i, n, r, p) == [id |-> i, name |-> n, roles |-> r, phones |-> p]

\* a path: <root>/<state>/<dir>/<file>.yml
Path(r, d, f) == [root |-> r, dir |-> d, file |-> f]

\* PersonFile(filename, data)
PersonFile(fn, d) == [filename |-> fn, data |-> d]

Anna == <<"A", "n", "n", "a">>
Annas == <<"A", "n", "n", "a", "s">>
Anne == <<"A", "n", "n", "e">>
Bob == <<"B", "o", "b">>
Cy == <<"C", "y">>
Dee == <<"D", "e", "e">>
Eve == <<"E", "v", "e">>
Flo == <<"F", "l", "o">>

\* what data/<state>/people and data/<state>/retired may hold
ExistingCatalog ==
    { PersonFile(Path("data", "people", "f1"),
                 Doc("e1", Anna, <<Role("upper", <<"5">>, NoDate)>>,
                     Phones(<<"X">>))),
      PersonFile(Path("data", "people", "f2"),
                 Doc("e2", Bob, <<Role("lower", <<"3">>, NoDate)>>, NoPhones)),
      PersonFile(Path("data", "retired", "f3"),
                 Doc("e3", Cy, <<Role("upper", <<"5">>, Past)>>, NoPhones)),
      PersonFile(Path("data", "people", "f4"),
                 Doc("e4", Anna, <<Role("upper", YamlInt(<<"7">>), Past),
                                   Role("lower", <<"1", "0">>, Past)>>,
                     NoPhones)),
      PersonFile(Path("data", "people", "f5"),
                 Doc("e5", Dee, <<Role("lower", <<"3">>, Future),
                                  Role("upper", <<"1">>, NoDate)>>,
                     Phones(<<"X">>))) }

\* what incoming/<state>/people may hold
IncomingCatalog ==
    { PersonFile(Path("incoming", "people", "g1"),
                 Doc("n1", Anna, <<Role("upper", <<"7">>, NoDate)>>, NoPhones)),
      PersonFile(Path("incoming", "people", "g2"),
                 Doc("n2", Annas, <<Role("upper", <<"5">>, NoDate)>>, NoPhones)),
      PersonFile(Path("incoming", "people", "g3"),
                 Doc("n3", Anne, <<Role("upper", <<"5">>, NoDate)>>, NoPhones)),
      PersonFile(Path("incoming", "people", "g4"),
                 Doc("n4", Bob, <<Role("lower", <<"3">>, NoDate)>>, NoPhones)),
      PersonFile(Path("incoming", "people", "g5"),
                 Doc("n5", Cy, <<Role("lower", <<"1">>, NoDate)>>,
                     Phones(<<"Y">>))),
      PersonFile(Path("incoming", "people", "g6"),
                 Doc("n6", Eve, <<Role("lower", <<"A", "L">>, NoDate)>>,
                     NoPhones)),
      PersonFile(Path("incoming", "people", "g7"),
                 Doc("n7", Dee, <<Role("lower", <<"3">>, Future),
                                  Role("upper", <<"1">>, NoDate)>>,
                     NoPhones)),
      PersonFile(Path("incoming", "people", "g8"),
                 Doc("n8", Flo, <<Role("upper", YamlInt(<<"4">>), NoDate)>>,
                     NoPhones)) }

\* a committee membership: the person's id ("" when it has none), end date
Membership(i, e) == [id |-> i, end_date |-> e]

\* data/<state>/organizations/*.yml
CommitteeDocs ==
    [c \in {"c1", "c2"} |->
        IF c = "c1"
        THEN <<Membership("e1", NoDate), Membership("e2", Past),
               Membership("e2", NoDate), Membership("", NoDate)>>
        ELSE <<Membership("e2", NoDate), Membership("e3", NoDate),
               Membership("e5", Future)>>]

\* the lists glob.glob can return: the files in any order
Listings(catalog, max) ==
    {s \in UNION {[1..k -> catalog] : k \in 0..max} :
        \A a, b \in 1..Len(s) : a # b => s[a] # s[b]}

\* from_dir(people) + from_dir(retired): no file of retired/ stands before
\* a file of people/
PeopleFirst(s) ==
    \A a, b \in 1..Len(s) :
        a < b => ~(s[a].filename.dir = "retired"
                   /\ s[b].filename.dir = "people")

\* merge() lines 177-178: from_dir(people) + from_dir(retired), each in the
\* order of its glob
ExistingListings ==
    {s \in Listings(ExistingCatalog, MaxExisting) : PeopleFirst(s)}

\* merge() line 181: from_dir(incoming people)
IncomingListings == Listings(IncomingCatalog, MaxIncoming)

\* --------------------------------------------------------------- settings
\* utils.get_settings()[state]: the seat specification of the jurisdiction
\* a seat specification that is an int n, and one that is a str
IntSpec(n) == [isint |-> TRUE, n |-> n]

StrSpec == [isint |-> FALSE, n |-> 0]

Settings == [upper_seats |-> IntSpec(7), lower_seats |-> IntSpec(10)]

\* settings in which the specification of one chamber is neither an int, a
\* list nor a dict
MalformedSettings == [Settings EXCEPT !.upper_seats = StrSpec]

\* expand_seats line 26: raise Exception("Unrecognized specification")
Unrecognized(settings) ==
    \E key \in DOMAIN settings : ~settings[key].isint

\* expand_seats: a Counter of seats per district for each chamber that has a
\* specification (an int n gives the districts 1..n one seat each)
expand_seats(settings) ==
    [chamber \in {c \in {"upper", "lower", "legislature"} :
                      (c = "upper" /\ "upper_seats" \in DOMAIN settings)
                      \/ (c = "lower" /\ "lower_seats" \in DOMAIN settings)
                      \/ (c = "legislature"
                          /\ "legislature_seats" \in DOMAIN settings)} |->
        LET spec == IF chamber = "upper" THEN settings.upper_seats
                    ELSE settings.lower_seats
        IN  [d \in {[isint |-> TRUE, n |-> k, s |-> <<>>] : k \in 1..spec.n}
                |-> 1]]

\* Counter[key] -= 1: a key the Counter lacks counts from 0
Decrement(counter, key) ==
    IF key \in DOMAIN counter
    THEN [counter EXCEPT ![key] = @ - 1]
    ELSE [k \in DOMAIN counter \cup {key} |->
             IF k = key THEN 0 - 1 ELSE counter[k]]

\* ------------------------------------------------------------------ state
VARIABLES
    store,            \* the person files on disk: a set of [path, data]
    committees,       \* the committee files on disk: name -> memberships
    existing_people,  \* merge(): the PersonFile objects of data/ (in memory)
    new_people,       \* merge(): the PersonFile objects of incoming/
    seats,            \* merge(): the Counters of expand_seats
    handled,          \* merge(): the set of handled ids
    operations,       \* PersonMerger.operations
    defer,            \* PersonMerger.defer
    save,             \* PersonMerger.save
    pc,               \* where merge() is
    i,                \* the index of the loop merge() is in
    pairs,            \* history: the (existing, incoming) pairs matched
    issued,           \* history: the calls of update/retire/create, in order,
                      \* that were queued or ran to their end
    applied,          \* history: the operations whose body has run, in order
    start             \* history: the lists and the store at the start

vars == <<store, committees, existing_people, new_people, seats, handled,
          operations, defer, save, pc, i, pairs, issued, applied, start>>

\* the files a list of PersonFile objects was read from
FilesOf(people) == {[path |-> people[k].filename, data |-> people[k].data] :
                        k \in 1..Len(people)}

\* the directories of a state, as they may be found on disk
Stores ==
    {FilesOf(ex) \cup FilesOf(nw) :
        ex \in ExistingListings, nw \in IncomingListings}

\* PersonMerger(defer, save), and the disk merge() is about to read
Init ==
    /\ store \in Stores
    /\ committees = CommitteeDocs
    /\ existing_people = <<>>
    /\ new_people = <<>>
    /\ seats = [chamber \in {} |-> 0]
    /\ handled = {}
    /\ operations = <<>>
    /\ defer \in BOOLEAN
    /\ save \in BOOLEAN
    /\ pc = "setup"
    /\ i = 1
    /\ pairs = {}
    /\ issued = <<>>
    /\ applied = <<>>
    /\ start = [existing |-> <<>>, new |-> <<>>,
                store |-> store, committees |-> committees]

\* ------------------------------------------------------------- the store
\* load_yaml(open(filename))
Load(files, path) == (CHOOSE f \in files : f.path = path).data

\* dump_obj(data, filename=path): the file at path is written, no other
dump_obj(files, path, data) ==
    {f \in files : f.path # path} \cup {[path |-> path, data |-> data]}

\* filename.replace('incoming/', 'data/')
ToData(path) ==
    IF path.root = "incoming" THEN [path EXCEPT !.root = "data"] ELSE path

\* filename.replace('/people/', '/retired/')
ToRetired(path) ==
    IF path.dir = "people" THEN [path EXCEPT !.dir = "retired"] ELSE path

\* the partition a path lies in
Partition(path) ==
    IF path.root = "incoming" THEN "incoming"
    ELSE IF path.dir = "retired" THEN "retired" ELSE "active"

\* retire.move_file: os.renames(filename, new_filename)
move_file(files, path) ==
    IF ToRetired(path) = path THEN files
    ELSE {f \in files : f.path # path /\ f.path # ToRetired(path)}
         \cup {[path |-> ToRetired(path), data |-> Load(files, path)]}

\* retire.retire_person(person, end_date): its roles after the call
retire_person(person, end_date) ==
    [person EXCEPT !.roles =
        [k \in 1..Len(person.roles) |->
            IF role_is_active(person.roles[k])
            THEN [person.roles[k] EXCEPT !.end_date = end_date]
            ELSE person.roles[k]]]

\* (mutant of retire_from_committee) the id of the membership is not looked
\* at
retire_from_committee_any_id(memberships, person_id, end_date) ==
    [k \in 1..Len(memberships) |->
        IF role_is_active(memberships[k])
        THEN [memberships[k] EXCEPT !.end_date = end_date]
        ELSE memberships[k]]

\* retire.retire_from_committee(committee, person_id, end_date)
retire_from_committee(memberships, person_id, end_date) ==
    [k \in 1..Len(memberships) |->
        IF memberships[k].id = person_id /\ role_is_active(memberships[k])
        THEN [memberships[k] EXCEPT !.end_date = end_date]
        ELSE memberships[k]]

\* the num of retire_person / retire_from_committee: the active entries
NumActive(entries, ids) ==
    Cardinality({k \in 1..Len(entries) :
                    entries[k].id \in ids /\ role_is_active(entries[k])})

RECURSIVE SumOver(_, _)
SumOver(f, S) ==
    IF S = {} THEN 0
    ELSE LET x == CHOOSE y \in S : TRUE IN f[x] + SumOver(f, S \ {x})

\* (mutant of retire_file) a person with nothing to end-date is left where
\* it is
retire_file_unmoved_when_none(files, coms, end_date, filename) ==
    LET person == Load(files, filename)
        retired == retire_person(person, end_date)
        num == Cardinality({k \in 1..Len(person.roles) :
                               role_is_active(person.roles[k])})
        comnum == [c \in DOMAIN coms |-> NumActive(coms[c], {person.id})]
        total == num + SumOver(comnum, DOMAIN coms)
    IN  [store |-> IF total = 0 THEN files
                   ELSE move_file(dump_obj(files, filename, retired),
                                  filename),
         committees |-> [c \in DOMAIN coms |->
                            retire_from_committee(coms[c], person.id, end_date)],
         num |-> total]

\* retire.retire(end_date, filename, None, False): the files and committees
\* after the call, and the num it reports
retire_file(files, coms, end_date, filename) ==
    LET person == Load(files, filename)
        retired == retire_person(person, end_date)
        num == Cardinality({k \in 1..Len(person.roles) :
                               role_is_active(person.roles[k])})
        comnum == [c \in DOMAIN coms |-> NumActive(coms[c], {person.id})]
    IN  [store |-> move_file(dump_obj(files, filename, retired), filename),
         committees |-> [c \in DOMAIN coms |->
                            retire_from_committee(coms[c], person.id, end_date)],
         num |-> num + SumOver(comnum, DOMAIN coms)]

\* ----------------------------------------------------------- PersonMerger
\* the merger and what its operations act on, as one value
Cur == [store |-> store, committees |-> committees,
        existing_people |-> existing_people, new_people |-> new_people,
        operations |-> operations, applied |-> applied]

\* a reference to a PersonFile object of one of the two lists
Ref(l, k) == [list |-> l, k |-> k]

Deref(st, ref) ==
    IF ref.list = "existing" THEN st.existing_people[ref.k]
    ELSE st.new_people[ref.k]

\* an entry of PersonMerger.operations: (fn, a, kw)
Op(fn, a) == [fn |-> fn, a |-> a]

\* what the history records of an operation: the ids of its arguments
Ids(st, op) == [k \in 1..Len(op.a) |-> Deref(st, op.a[k]).data.id]

Logged(st, op, roles, num) ==
    Append(st.applied, [fn |-> op.fn, ids |-> Ids(st, op), roles |-> roles,
                        num |-> num])

\* (mutant of create) the file is written whatever save says
create_always(st, op) ==
    LET new == Deref(st, op.a[1])
        filename == ToData(new.filename)
    IN  [st EXCEPT !.applied = Logged(st, op, <<>>, 0),
                   !.new_people[op.a[1].k].filename = filename,
                   !.store = dump_obj(st.store, filename, new.data)]

\* PersonMerger.create(new)
create(st, op) ==
    LET new == Deref(st, op.a[1])
        filename == ToData(new.filename)
        logged == [st EXCEPT !.applied = Logged(st, op, <<>>, 0)]
    IN  IF save
        THEN [logged EXCEPT
                 !.new_people[op.a[1].k].filename = filename,
                 !.store = dump_obj(st.store, filename, new.data)]
        ELSE logged

\* PersonMerger.retire(existing)
retire(st, op) ==
    LET existing == Deref(st, op.a[1])
        r == retire_file(st.store, st.committees, Today, existing.filename)
    IN  IF save
        THEN [st EXCEPT !.applied = Logged(st, op, <<>>, r.num),
                        !.store = r.store,
                        !.committees = r.committees]
        ELSE [st EXCEPT !.applied = Logged(st, op, <<>>, 0)]

\* (mutant of EndRoles) every active role is ended, whatever its seat
EndRolesAllActive(roles, newseat) ==
    [k \in 1..Len(roles) |->
        IF role_is_active(roles[k])
        THEN [roles[k] EXCEPT !.end_date = Today]
        ELSE roles[k]]

\* PersonMerger.update, lines 135-140: the roles after the loop
EndRoles(roles, newseat) ==
    [k \in 1..Len(roles) |->
        IF role_is_active(roles[k]) /\ RoleSeat(roles[k]) # newseat
        THEN [roles[k] EXCEPT !.end_date = Today]
        ELSE roles[k]]

\* (mutant of update) the documents are merged the other way round:
\* new.merge(existing), saved at the path of existing
update_merged_into_new(st, op) ==
    LET existing == Deref(st, op.a[1])
        new == Deref(st, op.a[2])
        ended == [existing.data EXCEPT
                     !.roles = EndRoles(existing.data.roles, seat(new))]
        merged == merge_people(new.data, ended)
        logged == [st EXCEPT !.applied = Logged(st, op, ended.roles, 0)]
    IN  IF save
        THEN [logged EXCEPT
                 !.existing_people[op.a[1].k].data = merged,
                 !.store = dump_obj(st.store, existing.filename, merged)]
        ELSE [logged EXCEPT !.existing_people[op.a[1].k].data = ended]

\* PersonMerger.update(existing, new)
update(st, op) ==
    LET existing == Deref(st, op.a[1])
        new == Deref(st, op.a[2])
        ended == [existing.data EXCEPT
                     !.roles = EndRoles(existing.data.roles, seat(new))]
        merged == merge_people(ended, new.data)
        logged == [st EXCEPT !.applied = Logged(st, op, ended.roles, 0)]
    IN  IF save
        THEN [logged EXCEPT
                 !.existing_people[op.a[1].k].data = merged,
                 !.store = dump_obj(st.store, existing.filename, merged)]
        ELSE [logged EXCEPT !.existing_people[op.a[1].k].data = ended]

\* the body of fn raises AttributeError before it saves anything: create and
\* retire read the seat of their argument for the message (lines 117, 125);
\* update reads the district of every role of existing, and the seat of new
\* when a role is active (lines 136-138)
Raises(st, op) ==
    LET first == Deref(st, op.a[1])
    IN  IF op.fn = "update"
        THEN LET roles == first.data.roles
             IN  \/ \E k \in 1..Len(roles) : ~isstr(roles[k].district)
                 \/ /\ \E k \in 1..Len(roles) : role_is_active(roles[k])
                    /\ SeatRaises(Deref(st, op.a[2]))
        ELSE SeatRaises(first)

\* fn(self, *a, **kw)
Call(st, op) ==
    CASE op.fn = "create" -> create(st, op)
      [] op.fn = "retire" -> retire(st, op)
      [] op.fn = "update" -> update(st, op)

\* (mutant of deferred) the call is made at once, whatever defer says
deferred_never(st, op) == Call(st, op)

\* the decorator deferred: queue the call, or make it
deferred(st, op) ==
    IF defer
    THEN [st EXCEPT !.operations = Append(st.operations, op)]
    ELSE Call(st, op)

\* (mutant of SortKey) the key is the seat of the LAST argument: the
\* incoming document of an update
SortKeyLastArg(st, op) == seat(Deref(st, op.a[Len(op.a)]))

\* the key of sort_operations: getattr(op[1][0], 'seat')
SortKey(st, op) == seat(Deref(st, op.a[1]))

RECURSIVE InsertByKeyBeforeEqual(_, _, _)
\* (mutant of InsertByKey) op goes in front of the entries with an equal key:
\* a sort that is not stable
InsertByKeyBeforeEqual(st, sorted, op) ==
    IF Len(sorted) = 0 THEN <<op>>
    ELSE IF ~SeatLess(SortKey(st, sorted[Len(sorted)]), SortKey(st, op))
    THEN Append(InsertByKeyBeforeEqual(st, SubSeq(sorted, 1, Len(sorted) - 1),
                                       op),
                sorted[Len(sorted)])
    ELSE Append(sorted, op)

RECURSIVE InsertByKey(_, _, _)
\* op inserted behind the entries of the sorted list whose key is not greater
InsertByKey(st, sorted, op) ==
    IF Len(sorted) = 0 THEN <<op>>
    ELSE IF SeatLess(SortKey(st, op), SortKey(st, sorted[Len(sorted)]))
    THEN Append(InsertByKey(st, SubSeq(sorted, 1, Len(sorted) - 1), op),
                sorted[Len(sorted)])
    ELSE Append(sorted, op)

RECURSIVE SortByKey(_, _)
\* list.sort(key=...): stable, ascending
SortByKey(st, ops) ==
    IF Len(ops) = 0 THEN <<>>
    ELSE InsertByKey(st, SortByKey(st, SubSeq(ops, 1, Len(ops) - 1)),
                     ops[Len(ops)])

\* (mutant of KeyRaises) the sort takes the seats without reading the
\* districts
KeyRaisesNever(st, ops) == FALSE

\* the key function of the sort raises AttributeError
KeyRaises(st, ops) ==
    \E a \in 1..Len(ops) : SeatRaises(Deref(st, ops[a].a[1]))

\* the comparisons of the sort raise TypeError
SortRaises(st, ops) ==
    \E a, b \in 1..Len(ops) :
        ~Comparable(SortKey(st, ops[a]), SortKey(st, ops[b]))

\* PersonMerger.sort_operations
sort_operations(st) == SortByKey(st, st.operations)

\* the merger and the store take the value st
Becomes(st) ==
    /\ store' = st.store
    /\ committees' = st.committees
    /\ existing_people' = st.existing_people
    /\ new_people' = st.new_people
    /\ operations' = st.operations
    /\ applied' = st.applied

\* ------------------------------------------------------------------ merge
\* what get_data_dir(state) may answer: a directory under data/, or one
\* whose name has no 'data' in it
DataDirs == {"data", "elsewhere"}

\* the PersonFile objects of the files, in every order
Orders(files) ==
    LET n == Cardinality(files)
    IN  {[k \in 1..n |-> PersonFile(t[k].path, t[k].data)] :
            t \in {u \in [1..n -> files] :
                      \A a, b \in 1..n : a # b => u[a] # u[b]}}

\* PersonFile.from_dir: the lists glob.glob may give for the files, which
\* it returns in any order
Globbed(files) == {s \in Orders(files) : PeopleFirst(s)}

\* merge() lines 176-184: the two lists are read and the seats expanded.
\* Under a directory with no 'data' in its name PersonFile.__init__ raises
\* for the first file of people/ (line 48); with no such file the assert of
\* line 180 fails, the incoming directory being the same directory
Setup ==
    /\ pc = "setup"
    /\ \E data_dir \in DataDirs, settings \in {Settings, MalformedSettings},
          ex \in Globbed({f \in store : f.path.root = "data"}),
          nw \in Globbed({f \in store : f.path.root = "incoming"}) :
          IF data_dir # "data"
          THEN /\ pc' = IF \E f \in store : /\ f.path.root = "data"
                                             /\ f.path.dir = "people"
                        THEN "Exception" ELSE "AssertionError"
               /\ UNCHANGED <<existing_people, new_people, seats, start>>
          ELSE /\ existing_people' = ex
               /\ new_people' = nw
               /\ start' = [start EXCEPT !.existing = ex, !.new = nw]
               /\ IF Unrecognized(settings)
                  THEN /\ pc' = "Exception"
                       /\ seats' = seats
                  ELSE /\ pc' = "match"
                       /\ seats' = expand_seats(settings)
    /\ UNCHANGED <<store, committees, handled, operations, defer, save, i,
                   pairs, issued, applied>>

\* (mutant of Skip) a record already in retired/ is passed over as well
SkipRetired(pf) ==
    pf.data.id \in handled \/ Partition(pf.filename) = "retired"

\* merge() lines 187, 191, 202, 207: the record is passed over
Skip(pf) == pf.data.id \in handled

\* (mutant of Handled) only the existing record is marked
HandledExistingOnly(existing, new) == handled \cup {existing.data.id}

\* merge() line 197: handled |= {existing.id, new.id}
Handled(existing, new) == handled \cup {existing.data.id, new.data.id}

\* the first incoming record not handled that has the name of existing
FirstMatch(existing) ==
    LET js == {j \in 1..Len(new_people) :
                  /\ ~Skip(new_people[j])
                  /\ same_name(existing, new_people[j])}
    IN  IF js = {} THEN 0 ELSE CHOOSE j \in js : \A k \in js : j <= k

\* merge() lines 186-199: one pass of the outer loop
MatchStep ==
    /\ pc = "match"
    /\ i <= Len(existing_people)
    /\ LET existing == existing_people[i]
           j == FirstMatch(existing)
       IN  IF Skip(existing) \/ j = 0
           THEN UNCHANGED <<store, committees, existing_people, new_people,
                            seats, handled, operations, pc, pairs, issued,
                            applied>>
           ELSE LET new == new_people[j]
                    op == Op("update", <<Ref("existing", i), Ref("new", j)>>)
                    differ == differences(existing, new) # {}
                    raises == differ /\ ~defer /\ Raises(Cur, op)
                IN  /\ Becomes(IF differ /\ ~raises THEN deferred(Cur, op)
                               ELSE Cur)
                    /\ issued' = IF differ /\ ~raises THEN Append(issued, op)
                                 ELSE issued
                    /\ pairs' = IF raises THEN pairs
                                ELSE pairs \cup {<<existing.data.id,
                                                   new.data.id>>}
                    /\ handled' = IF raises THEN handled
                                  ELSE Handled(existing, new)
                    /\ IF raises \/ SeatRaises(new)
                       THEN /\ seats' = seats
                            /\ pc' = "AttributeError"
                       ELSE IF seat(new)[1] \in DOMAIN seats
                       THEN /\ seats' = [seats EXCEPT ![seat(new)[1]] =
                                            Decrement(@, seat(new)[2])]
                            /\ pc' = pc
                       ELSE /\ seats' = seats
                            /\ pc' = "KeyError"
    /\ i' = i + 1
    /\ UNCHANGED <<defer, save, start>>

\* the first loop is over
MatchDone ==
    /\ pc = "match"
    /\ i > Len(existing_people)
    /\ pc' = "retire"
    /\ i' = 1
    /\ UNCHANGED <<store, committees, existing_people, new_people, seats,
                   handled, operations, defer, save, pairs, issued, applied,
                   start>>

\* merge() lines 201-204: one pass of the loop
RetireStep ==
    /\ pc = "retire"
    /\ i <= Len(existing_people)
    /\ LET op == Op("retire", <<Ref("existing", i)>>)
       IN  IF Skip(existing_people[i])
           THEN UNCHANGED <<store, committees, existing_people, new_people,
                            operations, issued, applied, pc>>
           ELSE IF ~defer /\ Raises(Cur, op)
                THEN /\ Becomes(Cur)
                     /\ issued' = issued
                     /\ pc' = "AttributeError"
                ELSE /\ Becomes(deferred(Cur, op))
                     /\ issued' = Append(issued, op)
                     /\ pc' = pc
    /\ i' = i + 1
    /\ UNCHANGED <<seats, handled, defer, save, pairs, start>>

\* the second loop is over
RetireDone ==
    /\ pc = "retire"
    /\ i > Len(existing_people)
    /\ pc' = "create"
    /\ i' = 1
    /\ UNCHANGED <<store, committees, existing_people, new_people, seats,
                   handled, operations, defer, save, pairs, issued, applied,
                   start>>

\* merge() lines 206-209: one pass of the loop
CreateStep ==
    /\ pc = "create"
    /\ i <= Len(new_people)
    /\ LET op == Op("create", <<Ref("new", i)>>)
       IN  IF Skip(new_people[i])
           THEN UNCHANGED <<store, committees, existing_people, new_people,
                            operations, issued, applied, pc>>
           ELSE IF ~defer /\ Raises(Cur, op)
                THEN /\ Becomes(Cur)
                     /\ issued' = issued
                     /\ pc' = "AttributeError"
                ELSE /\ Becomes(deferred(Cur, op))
                     /\ issued' = Append(issued, op)
                     /\ pc' = pc
    /\ i' = i + 1
    /\ UNCHANGED <<seats, handled, defer, save, pairs, start>>

\* the third loop is over: merge() calls execute_deferred
CreateDone ==
    /\ pc = "create"
    /\ i > Len(new_people)
    /\ pc' = "execute"
    /\ i' = 1
    /\ UNCHANGED <<store, committees, existing_people, new_people, seats,
                   handled, operations, defer, save, pairs, issued, applied,
                   start>>

\* execute_deferred line 110: the sort computes the key of every entry, then
\* compares the keys; an AttributeError of a key or a TypeError of a
\* comparison ends it (with the run), and the order it then leaves the list
\* in is not read
SortOperations ==
    /\ pc = "execute"
    /\ IF KeyRaises(Cur, operations)
       THEN /\ pc' = "AttributeError"
            /\ operations' = operations
       ELSE IF SortRaises(Cur, operations)
       THEN /\ pc' = "TypeError"
            /\ operations' = operations
       ELSE /\ pc' = "pop"
            /\ operations' = sort_operations(Cur)
    /\ UNCHANGED <<store, committees, existing_people, new_people, seats,
                   handled, defer, save, i, pairs, issued, applied, start>>

\* (mutant of pop0) self.operations.pop(): the entry is taken off the back
popLast(ops) == [op |-> ops[Len(ops)], rest |-> SubSeq(ops, 1, Len(ops) - 1)]

\* self.operations.pop(0): the entry taken and the list left
pop0(ops) == [op |-> Head(ops), rest |-> Tail(ops)]

\* execute_deferred lines 111-113: one pass of the loop
ExecuteStep ==
    /\ pc = "pop"
    /\ operations # <<>>
    /\ LET st == [Cur EXCEPT !.operations = pop0(operations).rest]
           op == pop0(operations).op
       IN  IF Raises(st, op)
           THEN /\ Becomes(st)
                /\ pc' = "AttributeError"
           ELSE /\ Becomes(Call(st, op))
                /\ pc' = pc
    /\ UNCHANGED <<seats, handled, defer, save, i, pairs, issued, start>>

\* (mutant of Unwound) what the operations applied so far wrote is undone
UnwoundRollback(st) ==
    [st EXCEPT !.store = start.store, !.committees = start.committees]

\* execute_deferred lines 111-113 have no except and no finally: when fn
\* raises, the merger and the store are left as they are
Unwound(st) == st

\* execute_deferred lines 111-113: the operation taken off the queue fails at
\* its first access to the store (open, dump_obj), and the OSError leaves
\* execute_deferred and merge()
ExecuteFail ==
    /\ pc = "pop"
    /\ operations # <<>>
    /\ save
    /\ ~Raises(Cur, pop0(operations).op)
    /\ Becomes(Unwound([Cur EXCEPT !.operations = pop0(operations).rest]))
    /\ pc' = "OSError"
    /\ UNCHANGED <<seats, handled, defer, save, i, pairs, issued, start>>

\* execute_deferred returns, and merge() with it
ExecuteDone ==
    /\ pc = "pop"
    /\ operations = <<>>
    /\ pc' = "done"
    /\ UNCHANGED <<store, committees, existing_people, new_people, seats,
                   handled, operations, defer, save, i, pairs, issued, applied,
                   start>>

Next ==
    \/ Setup
    \/ MatchStep
    \/ MatchDone
    \/ RetireStep
    \/ RetireDone
    \/ CreateStep
    \/ CreateDone
    \/ SortOperations
    \/ ExecuteStep
    \/ ExecuteFail
    \/ ExecuteDone

Spec == Init /\ [][Next]_vars

\* ============================================================ properties
\* the PersonFile objects the run started with, by id
StartFiles == Range(start.existing) \cup Range(start.new)

StartFile(id) ==
    LET es == {k \in 1..Len(start.existing) : start.existing[k].data.id = id}
        ns == {k \in 1..Len(start.new) : start.new[k].data.id = id}
    IN  IF es # {} THEN start.existing[CHOOSE k \in es : TRUE]
        ELSE start.new[CHOOSE k \in ns : TRUE]

ExistingIds == {start.existing[k].data.id : k \in 1..Len(start.existing)}

IncomingIds == {start.new[k].data.id : k \in 1..Len(start.new)}

\* an operation as (fn, ids of its arguments)
Plain(op) == [fn |-> op.fn, ids |-> Ids(Cur, op)]

IssuedOps == [k \in 1..Len(issued) |-> Plain(issued[k])]

QueuedOps == [k \in 1..Len(operations) |-> Plain(operations[k])]

AppliedOps == [k \in 1..Len(applied) |->
                  [fn |-> applied[k].fn, ids |-> applied[k].ids]]

\* the three matching loops of merge() have run to their end
MatchingOver == pc \in {"execute", "pop", "done", "TypeError", "OSError"}

PairedIds == {p[1] : p \in pairs} \cup {p[2] : p \in pairs}

\* the number of operations fn issued for the record id
CountIssued(fn, id) ==
    Cardinality({k \in 1..Len(issued) :
                    /\ issued[k].fn = fn
                    /\ Deref(Cur, issued[k].a[1]).data.id = id})

\* the seats keys[1..n] never decrease
NonDecreasing(keys) ==
    \A a, b \in 1..Len(keys) :
        a < b => Comparable(keys[a], keys[b]) /\ ~SeatLess(keys[b], keys[a])

\* the key C1 states: the incoming document's seat for a Create and an
\* Update, the existing document's seat for a Retire
ClaimedKey(o) ==
    IF o.fn = "retire" THEN seat(StartFile(o.ids[1]))
    ELSE seat(StartFile(o.ids[Len(o.ids)]))

\* the key the sort uses: the seat of the operation's first argument, which
\* is the EXISTING document of an Update
FirstArgKey(o) == seat(StartFile(o.ids[1]))

\* C1 as stated: after sort_operations the queue is in non-decreasing order
\* of the seat of the incoming document for Create and Update and of the
\* existing document for Retire
C1_SortedByIncomingSeat ==
    pc = "pop" => NonDecreasing([k \in 1..Len(operations) |->
                                    ClaimedKey(QueuedOps[k])])

\* C1 amended: after sort_operations the queue is in non-decreasing order of
\* the seat (role type, then district) of each operation's first document:
\* the incoming document of a Create, the existing document of a Retire and
\* of an Update, whose incoming seat plays no part
C1_SortedByFirstArgSeat ==
    pc = "pop" => NonDecreasing([k \in 1..Len(operations) |->
                                    FirstArgKey(QueuedOps[k])])

\* a sorted queue in which an Update that changes seat stands before an
\* operation that the incoming seat would have put it behind
C1_Witness ==
    /\ pc = "pop"
    /\ applied = <<>>
    /\ \E a, b \in 1..Len(operations) :
          /\ a < b
          /\ QueuedOps[a].fn = "update"
          /\ FirstArgKey(QueuedOps[a]) # ClaimedKey(QueuedOps[a])
          /\ SeatLess(ClaimedKey(QueuedOps[b]), ClaimedKey(QueuedOps[a]))

\* C2: with deferral, the operations already applied followed by those still
\* queued are, at every step of execute_deferred, the issued operations each
\* exactly once in non-decreasing seat order, so that they are applied front
\* to back in that order; the queue is empty when execute_deferred returns
C2_AppliedInSortedOrder ==
    (defer /\ pc \in {"pop", "done"}) =>
        LET all == AppliedOps \o QueuedOps
        IN  /\ Len(all) = Len(issued)
            /\ Range(all) = Range(IssuedOps)
            /\ Cardinality(Range(all)) = Len(all)
            /\ NonDecreasing([k \in 1..Len(all) |-> FirstArgKey(all[k])])
            /\ (pc = "done" => operations = <<>>)

Lower(d) == <<"lower", NormDistrict(d)>>

Upper(d) == <<"upper", NormDistrict(d)>>

\* the example of the specification: issued for the seats (lower,3),
\* (upper,1), (lower,1), applied as (lower,1), (lower,3), (upper,1)
C2_Witness ==
    /\ defer
    /\ pc = "done"
    /\ [k \in 1..Len(issued) |-> FirstArgKey(IssuedOps[k])]
          = <<Lower(<<"3">>), Upper(<<"1">>), Lower(<<"1">>)>>
    /\ [k \in 1..Len(applied) |-> FirstArgKey(AppliedOps[k])]
          = <<Lower(<<"1">>), Lower(<<"3">>), Upper(<<"1">>)>>

\* C3: when matching is over, every existing record that was not paired has
\* exactly one Retire issued for it and every incoming record that was not
\* paired has exactly one Create issued for it
C3_UnpairedHaveOneOutcome ==
    MatchingOver =>
        /\ \A id \in ExistingIds \ PairedIds : CountIssued("retire", id) = 1
        /\ \A id \in IncomingIds \ PairedIds : CountIssued("create", id) = 1

\* matching is over with a pair, an unpaired existing record, which has its
\* Retire, and an unpaired incoming record, which has its Create
C3_Witness ==
    /\ MatchingOver
    /\ pairs # {}
    /\ \E id \in ExistingIds \ PairedIds : CountIssued("retire", id) = 1
    /\ \E id \in IncomingIds \ PairedIds : CountIssued("create", id) = 1

\* C4: the handled ids are those of the matched pairs; no existing and no
\* incoming record is in two pairs; a paired record is never the subject of
\* a Retire or a Create, and has at most one Update
C4_HandledNeverReconsidered ==
    /\ handled = PairedIds
    /\ \A p, q \in pairs : (p[1] = q[1] \/ p[2] = q[2]) => p = q
    /\ \A id \in PairedIds :
          /\ CountIssued("retire", id) = 0
          /\ CountIssued("create", id) = 0
          /\ CountIssued("update", id) <= 1
    /\ \A k \in 1..Len(issued) :
          IssuedOps[k].fn = "update" =>
              <<IssuedOps[k].ids[1], IssuedOps[k].ids[2]>> \in pairs

\* two existing records share the name of one incoming record: the first is
\* paired with it, the second finds it handled and is retired
C4_Witness ==
    /\ pc = "done"
    /\ \E p \in pairs : \E id \in ExistingIds \ PairedIds :
          /\ StartFile(id).data.name = StartFile(p[2]).data.name
          /\ CountIssued("retire", id) = 1

\* C5: when matching is over, no existing record with a Retire and incoming
\* record with a Create have identical names
C5_ExactNameAlwaysPairs ==
    MatchingOver =>
        \A e \in ExistingIds, n \in IncomingIds :
            (CountIssued("retire", e) > 0 /\ CountIssued("create", n) > 0)
                => StartFile(e).data.name # StartFile(n).data.name

\* a pair with identical names in different seats, made although another
\* incoming record holds the existing record's seat
C5_Witness ==
    /\ MatchingOver
    /\ \E p \in pairs : \E n \in IncomingIds \ PairedIds :
          /\ seat(StartFile(p[1])) # seat(StartFile(p[2]))
          /\ seat(StartFile(n)) = seat(StartFile(p[1]))
          /\ CountIssued("create", n) = 1

\* the incoming records no pair took that hold the seat of the existing
\* record e and have a name similar to its name: the candidates of the
\* fuzzy pass the specification describes
Candidates(e) ==
    {n \in IncomingIds \ PairedIds :
        /\ seat(StartFile(n)) = seat(StartFile(e))
        /\ Similar(StartFile(e).data.name, StartFile(n).data.name)}

\* n is the candidate of e with the highest similarity, and no other
\* unpaired existing record has n as a candidate
BestCandidate(e, n) ==
    /\ n \in Candidates(e)
    /\ \A m \in Candidates(e) \ {n} :
          MoreSimilar(StartFile(e).data.name, StartFile(n).data.name,
                      StartFile(m).data.name)
    /\ \A f \in ExistingIds \ (PairedIds \cup {e}) : n \notin Candidates(f)

C7_OnePartitionPerRecord ==
    \A f, g \in store : f.data.id = g.data.id => f.path = g.path

\* what merge() reads and what it writes is as it was at the start
Untouched ==
    /\ store = start.store
    /\ committees = start.committees

\* C8: with deferral, until the three matching loops have ended no operation
\* has run: the store and the documents in memory are as at the start
C8_NothingAppliedBeforeMatchingEnds ==
    (defer /\ pc \in {"match", "retire", "create", "execute", "KeyError"}) =>
        /\ Untouched
        /\ applied = <<>>
        /\ existing_people = start.existing
        /\ new_people = start.new

\* a deferred run that has changed the store, in execute_deferred
C8_Witness ==
    /\ defer
    /\ save
    /\ pc = "done"
    /\ Len(applied) >= 2
    /\ store # start.store
    /\ committees # start.committees

RECURSIVE ExpectedPairs(_, _)
\* the pairs of the exact-name pass over the lists of the start, from the
\* existing record k on with the ids in h handled
ExpectedPairs(k, h) ==
    IF k > Len(start.existing) THEN <<>>
    ELSE LET e == start.existing[k]
             js == {j \in 1..Len(start.new) :
                       /\ start.new[j].data.id \notin h
                       /\ start.new[j].data.name = e.data.name}
             j == CHOOSE x \in js : \A y \in js : x <= y
         IN  IF e.data.id \in h \/ js = {} THEN ExpectedPairs(k + 1, h)
             ELSE <<<<e.data.id, start.new[j].data.id>>>>
                  \o ExpectedPairs(k + 1,
                                   h \cup {e.data.id, start.new[j].data.id})

RECURSIVE Collect(_, _, _)
\* the entries F[x] of the x in s for which Keep[x], in the order of s
Collect(s, Keep, F) ==
    IF Len(s) = 0 THEN <<>>
    ELSE (IF Keep[s[1]] THEN <<F[s[1]]>> ELSE <<>>)
         \o Collect(Tail(s), Keep, F)

\* the operations a run over the lists of the start issues, whatever save is
ExpectedIssued ==
    LET ps == ExpectedPairs(1, {})
        paired == {ps[k][1] : k \in 1..Len(ps)} \cup
                  {ps[k][2] : k \in 1..Len(ps)}
        eids == [k \in 1..Len(start.existing) |-> start.existing[k].data.id]
        nids == [k \in 1..Len(start.new) |-> start.new[k].data.id]
    IN  Collect(ps,
                [p \in Range(ps) |->
                    compare_objects(StartFile(p[1]).data,
                                    StartFile(p[2]).data) # {}],
                [p \in Range(ps) |-> [fn |-> "update", ids |-> p]])
        \o Collect(eids, [x \in Range(eids) |-> x \notin paired],
                   [x \in Range(eids) |-> [fn |-> "retire", ids |-> <<x>>]])
        \o Collect(nids, [x \in Range(nids) |-> x \notin paired],
                   [x \in Range(nids) |-> [fn |-> "create", ids |-> <<x>>]])

\* C9: with save disabled the store and the committees are never changed,
\* and a run that ends has issued the operations that follow from the two
\* lists alone (the same with save enabled) and has run each of them once
C9_DryRunLeavesStore ==
    /\ ~save => Untouched
    /\ pc = "done" =>
          /\ IssuedOps = ExpectedIssued
          /\ Len(applied) = Len(issued)
          /\ Range(AppliedOps) = Range(IssuedOps)

\* a dry run that has run an Update, a Retire and a Create
C9_Witness ==
    /\ ~save
    /\ pc = "done"
    /\ {AppliedOps[k].fn : k \in 1..Len(applied)}
          = {"update", "retire", "create"}

\* C10: the roles an Update leaves the existing record with, before the
\* merge: a role that was active and whose seat is not the incoming
\* record's seat has today's end date, every other role is as it was
C10_UpdateEndsRolesOfOtherSeats ==
    \A k \in 1..Len(applied) :
        applied[k].fn = "update" =>
            LET before == StartFile(applied[k].ids[1]).data.roles
                newseat == seat(StartFile(applied[k].ids[2]))
                after == applied[k].roles
            IN  /\ Len(after) = Len(before)
                /\ \A r \in 1..Len(before) :
                      IF role_is_active(before[r])
                         /\ RoleSeat(before[r]) # newseat
                      THEN after[r] = [before[r] EXCEPT !.end_date = Today]
                      ELSE after[r] = before[r]

\* an Update that ended one role of the existing record and left alone an
\* active role in the incoming seat
C10_Witness ==
    \E k \in 1..Len(applied) :
        /\ applied[k].fn = "update"
        /\ LET before == StartFile(applied[k].ids[1]).data.roles
               newseat == seat(StartFile(applied[k].ids[2]))
           IN  \E r, q \in 1..Len(before) :
                  /\ role_is_active(before[r])
                  /\ RoleSeat(before[r]) # newseat
                  /\ applied[k].roles[r].end_date = Today
                  /\ role_is_active(before[q])
                  /\ RoleSeat(before[q]) = newseat
                  /\ applied[k].roles[q] = before[q]

\* the records whose Retire has been applied
RetiredIds ==
    {applied[k].ids[1] : k \in {j \in 1..Len(applied) :
                                   applied[j].fn = "retire"}}

\* the documents the store holds under data/ for the id
StoredDocs(id) == {f \in store : f.path.root = "data" /\ f.data.id = id}

\* the memberships of the committee documents, as they were at the start,
\* that were active and carry the id
ActiveMemberships(id) ==
    UNION {{<<c, m>> : m \in {n \in 1..Len(start.committees[c]) :
                                 /\ start.committees[c][n].id = id
                                 /\ role_is_active(start.committees[c][n])}} :
              c \in DOMAIN start.committees}

\* C11: once retire has run for a person, the person's stored document has
\* today's end date on exactly the roles that were active and every other
\* role as it was; in every committee document exactly the memberships that
\* were active and carry the id of a retired person have today's end date
\* and every other membership is as it was; the count retire reports is the
\* number of roles plus memberships it end-dated
C11_RetireEndsExactlyTheActive ==
    save =>
        /\ \A k \in 1..Len(applied) :
              applied[k].fn = "retire" =>
                  LET id == applied[k].ids[1]
                      before == StartFile(id).data.roles
                      active == {r \in 1..Len(before) :
                                    role_is_active(before[r])}
                  IN  /\ StoredDocs(id) # {}
                      /\ \A f \in StoredDocs(id) :
                            /\ Len(f.data.roles) = Len(before)
                            /\ \A r \in 1..Len(before) :
                                  f.data.roles[r] =
                                      IF r \in active
                                      THEN [before[r] EXCEPT
                                               !.end_date = Today]
                                      ELSE before[r]
                      /\ applied[k].num =
                             Cardinality(active)
                             + Cardinality(ActiveMemberships(id))
        /\ \A c \in DOMAIN start.committees :
              /\ Len(committees[c]) = Len(start.committees[c])
              /\ \A m \in 1..Len(start.committees[c]) :
                    LET was == start.committees[c][m]
                    IN  committees[c][m] =
                            IF was.id \in RetiredIds /\ role_is_active(was)
                            THEN [was EXCEPT !.end_date = Today]
                            ELSE was

\* the retirement of a person with one active role, an active membership in
\* each of two committees and an ended one: the count is 3, the ended
\* membership and the active membership of another person are as they were
C11_Witness ==
    /\ save
    /\ \E k \in 1..Len(applied) :
          /\ applied[k].fn = "retire"
          /\ applied[k].ids[1] = "e2"
          /\ applied[k].num = 3
    /\ "e1" \notin RetiredIds
    /\ committees["c1"][1] = Membership("e1", NoDate)
    /\ committees["c1"][2] = Membership("e2", Past)
    /\ committees["c1"][3] = Membership("e2", Today)
    /\ committees["c2"][1] = Membership("e2", Today)

\* the record had no active role and no active committee membership when the
\* run started
NothingActive(id) ==
    /\ \A r \in 1..Len(StartFile(id).data.roles) :
          ~role_is_active(StartFile(id).data.roles[r])
    /\ ActiveMemberships(id) = {}

\* C12: retire of a person with no active role and no active committee
\* membership completes: it reports the count 0, the person's document and
\* the memberships carrying its id are as they were, and the document is in
\* the retired partition and nowhere else under data/
C12_RetireOfInactiveRelocates ==
    save =>
        \A k \in 1..Len(applied) :
            (applied[k].fn = "retire" /\ NothingActive(applied[k].ids[1])) =>
                LET id == applied[k].ids[1]
                    was == StartFile(id)
                IN  /\ applied[k].num = 0
                    /\ StoredDocs(id) # {}
                    /\ \A f \in StoredDocs(id) :
                          /\ f.data = was.data
                          /\ Partition(f.path) = "retired"
                          /\ f.path.file = was.filename.file
                    /\ \A c \in DOMAIN start.committees :
                          \A m \in 1..Len(start.committees[c]) :
                              start.committees[c][m].id = id =>
                                  committees[c][m] = start.committees[c][m]

\* a person of the active partition whose roles had all ended and who sits
\* on no committee has been retired
C12_Witness ==
    /\ save
    /\ \E k \in 1..Len(applied) :
          /\ applied[k].fn = "retire"
          /\ NothingActive(applied[k].ids[1])
          /\ Partition(StartFile(applied[k].ids[1]).filename) = "active"
          /\ applied[k].num = 0
          /\ \E f \in store : /\ f.data.id = applied[k].ids[1]
                               /\ Partition(f.path) = "retired"

\* what the applied operation k wrote is in the store: the created document
\* under data/people, the retired document under data/retired with no
\* active role, the updated document at the existing record's path with the
\* roles the Update left and the incoming name
EffectRemains(k) ==
    LET id == applied[k].ids[1]
    IN  CASE applied[k].fn = "create" ->
                 \E f \in StoredDocs(id) : Partition(f.path) = "active"
          [] applied[k].fn = "retire" ->
                 \E f \in StoredDocs(id) :
                     /\ Partition(f.path) = "retired"
                     /\ \A r \in 1..Len(f.data.roles) :
                           ~role_is_active(f.data.roles[r])
          [] applied[k].fn = "update" ->
                 \E f \in StoredDocs(id) :
                     /\ f.path = StartFile(id).filename
                     /\ f.data.name = StartFile(applied[k].ids[2]).data.name
                     /\ SubSeq(f.data.roles, 1, Len(applied[k].roles))
                            = applied[k].roles

\* C13: in a saving run with deferral, when an operation taken off the
\* sorted queue has not completed, the run is over in the error it raised
\* (nothing further is applied, the rest of the queue is left), and what
\* each operation applied before it wrote is still in the store
C13_FailureKeepsEffectsAndPropagates ==
    (defer /\ save /\ Len(applied) + Len(operations) < Len(issued)) =>
        /\ pc \in {"OSError", "AttributeError"}
        /\ ~ENABLED Next
        /\ Len(applied) + Len(operations) + 1 = Len(issued)
        /\ \A k \in 1..Len(applied) : EffectRemains(k)

\* the second or a later operation of the queue failed, with operations
\* still queued behind it, after a Retire and a Create had been applied
C13_Witness ==
    /\ pc = "OSError"
    /\ operations # <<>>
    /\ store # start.store
    /\ \E a, b \in 1..Len(applied) :
          applied[a].fn = "retire" /\ applied[b].fn = "create"

\* the run has ended in an input error: a seat specification expand_seats
\* does not recognize or a path PersonFile does not (Exception, or the
\* failed assert on the directories), a district that cannot be read
\* (AttributeError) or compared (TypeError)
InputError ==
    pc \in {"Exception", "AssertionError", "AttributeError", "TypeError"}

\* C14 as stated: whenever a run, deferred or not, has ended in an input
\* error, no operation has been applied and the store is as at the start
C14_InputErrorBeforeAnyMutation ==
    InputError => (applied = <<>> /\ Untouched)

\* every district that cannot be read is the district of the last role of
\* its record, the one the seat is read from
OnlySeatsUnreadable ==
    \A pf \in StartFiles :
        \A k \in 1..(Len(pf.data.roles) - 1) :
            isstr(pf.data.roles[k].district)

\* C14 amended: in a run with deferral, an input error in the seat
\* specification, in a path or in the seat of a record is raised while the
\* lists are read, the records matched or the queue sorted: no operation has
\* been applied and the store is as at the start
C14_DeferredInputErrorBeforeAnyMutation ==
    (defer /\ InputError /\ OnlySeatsUnreadable) =>
        (applied = <<>> /\ Untouched)

\* a saving run with deferral that ended in the sort, on the seat of a record
\* to create, with a Retire queued as well and nothing applied
C14_Witness ==
    /\ defer
    /\ save
    /\ pc = "AttributeError"
    /\ OnlySeatsUnreadable
    /\ \E a, b \in 1..Len(operations) :
          /\ QueuedOps[a].fn = "retire"
          /\ QueuedOps[b].fn = "create"
          /\ SeatRaises(StartFile(QueuedOps[b].ids[1]))
    /\ applied = <<>>
    /\ Untouched

RECURSIVE PairsOver(_, _, _, _)
\* the pairs the first loop of merge() makes over the lists ex and nw, from
\* the existing record k on with the ids in h handled
PairsOver(ex, nw, k, h) ==
    IF k > Len(ex) THEN <<>>
    ELSE LET js == {j \in 1..Len(nw) :
                       /\ nw[j].data.id \notin h
                       /\ nw[j].data.name = ex[k].data.name}
             j == CHOOSE x \in js : \A y \in js : x <= y
         IN  IF ex[k].data.id \in h \/ js = {}
             THEN PairsOver(ex, nw, k + 1, h)
             ELSE <<<<ex[k].data.id, nw[j].data.id>>>>
                  \o PairsOver(ex, nw, k + 1,
                               h \cup {ex[k].data.id, nw[j].data.id})

\* the operations a run over the lists ex and nw issues, in order
IssuedOver(ex, nw) ==
    LET ps == PairsOver(ex, nw, 1, {})
        paired == {ps[k][1] : k \in 1..Len(ps)} \cup
                  {ps[k][2] : k \in 1..Len(ps)}
        eids == [k \in 1..Len(ex) |-> ex[k].data.id]
        nids == [k \in 1..Len(nw) |-> nw[k].data.id]
    IN  Collect(ps,
                [p \in Range(ps) |->
                    compare_objects(StartFile(p[1]).data,
                                    StartFile(p[2]).data) # {}],
                [p \in Range(ps) |-> [fn |-> "update", ids |-> p]])
        \o Collect(eids, [x \in Range(eids) |-> x \notin paired],
                   [x \in Range(eids) |-> [fn |-> "retire", ids |-> <<x>>]])
        \o Collect(nids, [x \in Range(nids) |-> x \notin paired],
                   [x \in Range(nids) |-> [fn |-> "create", ids |-> <<x>>]])

RECURSIVE InsertPlain(_, _)
\* o put behind the entries of the sorted list whose key is not greater
InsertPlain(sorted, o) ==
    IF Len(sorted) = 0 THEN <<o>>
    ELSE IF SeatLess(FirstArgKey(o), FirstArgKey(sorted[Len(sorted)]))
    THEN Append(InsertPlain(SubSeq(sorted, 1, Len(sorted) - 1), o),
                sorted[Len(sorted)])
    ELSE Append(sorted, o)

RECURSIVE SortPlain(_)
\* the operations in the order a stable sort by the key leaves them in
SortPlain(ops) ==
    IF Len(ops) = 0 THEN <<>>
    ELSE InsertPlain(SortPlain(SubSeq(ops, 1, Len(ops) - 1)), ops[Len(ops)])

\* the order in which a run over the lists ex and nw applies its operations
AppliedOver(ex, nw) ==
    IF defer THEN SortPlain(IssuedOver(ex, nw)) ELSE IssuedOver(ex, nw)

\* C15: a run that has ended has made the pairs, issued the Retires and the
\* Creates and applied the operations in the sequence that a run over the
\* same files makes, issues and applies for every other order in which the
\* two directories can be listed
C15_SameOutcomeForEveryOrder ==
    pc = "done" =>
        \A ex \in Globbed({f \in start.store : f.path.root = "data"}),
           nw \in Globbed({f \in start.store : f.path.root = "incoming"}) :
            /\ Range(PairsOver(ex, nw, 1, {})) = pairs
            /\ Range(IssuedOver(ex, nw)) = Range(IssuedOps)
            /\ AppliedOver(ex, nw) = AppliedOps

ContributesNew(e, n) ==
    \/ n.name # e.name
    \/ Range(n.roles) \ Range(e.roles) # {}
    \/ Range(n.phones.items) \ Range(e.phones.items) # {}

\* C17: an Update is issued only for a pair whose incoming document
\* contributes new information; a pair whose incoming document differs from
\* the existing one only by what it omits has no Update
C17_NoUpdateForSparserIncoming ==
    \A k \in 1..Len(issued) :
        IssuedOps[k].fn = "update" =>
            ContributesNew(StartFile(IssuedOps[k].ids[1]).data,
                           StartFile(IssuedOps[k].ids[2]).data)

\* C18: once an Update of an existing record that was in the retired
\* partition has been applied in a saving run, the record is in the active
\* partition and no longer in the retired one
C18_UpdateUnretires ==
    save =>
        \A k \in 1..Len(applied) :
            (/\ applied[k].fn = "update"
             /\ Partition(StartFile(applied[k].ids[1]).filename) = "retired")
                => /\ \E f \in StoredDocs(applied[k].ids[1]) :
                         Partition(f.path) = "active"
                   /\ \A f \in StoredDocs(applied[k].ids[1]) :
                         Partition(f.path) # "retired"

\* the place of an operation in the order of issue
IssuePos(o) == CHOOSE k \in 1..Len(issued) : IssuedOps[k] = o

\* updates are issued by the first loop of merge(), retires by the second,
\* creates by the third
LoopOf(o) ==
    CASE o.fn = "update" -> 1
      [] o.fn = "retire" -> 2
      [] o.fn = "create" -> 3

\* C19: with deferral, in the order of application (the operations applied
\* followed by those still queued) two operations with the same sort key
\* stand in their order of issue; hence in one seat an Update comes before a
\* Retire and a Create, and a Retire before a Create
C19_EqualKeysKeepIssueOrder ==
    (defer /\ pc \in {"pop", "done"}) =>
        LET all == AppliedOps \o QueuedOps
        IN  \A a, b \in 1..Len(all) :
                (a < b /\ FirstArgKey(all[a]) = FirstArgKey(all[b])) =>
                    /\ IssuePos(all[a]) < IssuePos(all[b])
                    /\ LoopOf(all[a]) <= LoopOf(all[b])

\* a deferred run has applied, one after the other, an Update, a Retire and
\* a Create that share one sort key
C19_Witness ==
    /\ defer
    /\ pc = "done"
    /\ \E a, b, c \in 1..Len(applied) :
          /\ a < b
          /\ b < c
          /\ AppliedOps[a].fn = "update"
          /\ AppliedOps[b].fn = "retire"
          /\ AppliedOps[c].fn = "create"
          /\ FirstArgKey(AppliedOps[a]) = FirstArgKey(AppliedOps[b])
          /\ FirstArgKey(AppliedOps[b]) = FirstArgKey(AppliedOps[c])

\* C20: sorting the queue succeeds whatever the districts of the operations
\* are, numeric and non-numeric ones of one role type included: the run
\* never ends in the TypeError of a comparison of two seats
C20_SortAcceptsMixedDistricts == pc # "TypeError"

====
